---- MODULE Spec2Model ----
(***************************************************************************)
(* ModelImporterPackage (core/packages/model_importers/model_importer.py)  *)
(* and the game-folder widgets of the general settings frame.              *)
(*                                                                         *)
(* A str holding a path and a pathlib.Path are records with the sequence   *)
(* of components: "C:/Games/WuWa" has <<"C:", "Games", "WuWa">>, a         *)
(* trailing slash is a trailing "" component, '' is <<>>.  pathlib.Path    *)
(* drops "" and "." components, so Path('') = Path('.') has <<>>.          *)
(***************************************************************************)
EXTENDS Integers, Sequences, FiniteSets, TLC

VARIABLES
    game_folder,      \* Config.Active.Importer.game_folder
    d3dx_ini,         \* Config.Active.Importer.d3dx_ini
    flags,            \* Config.Active.Migoto.{debug_logging, mute_warnings, enable_hunting, dump_shaders}
    ini_file,         \* content of <importer_path>/d3dx.ini, NoFile when missing
    pc,               \* position of the start_game handler
    outcome,          \* how the start_game run ended
    game_path,        \* start_game local
    game_exe_path,    \* start_game local
    trace,            \* events fired / calls made by the current start_game run, in order
    entry,            \* configuration and file as they were when the run began
    last_validate,    \* last ValidateGameFolder request and its result
    last_projection,  \* last direct set_default_ini_values call and its result
    ini_calls,        \* successive direct update_d3dx_ini calls
    last_load,        \* last load() and what its warm-up met
    overwrite_ini,    \* Config.Active.Importer.overwrite_ini
    backups_path,     \* self.backups_path
    backup_roots,     \* the directories under Paths.App.Backups
    now,              \* datetime.now(), in seconds
    downloaded_ini,   \* d3dx.ini under self.downloaded_asset_path, NoFile when the package has none
    vault_calls       \* successive direct backup / restore calls

vars == <<game_folder, d3dx_ini, flags, ini_file, pc, outcome, game_path,
          game_exe_path, trace, entry, last_validate, last_projection, ini_calls,
          last_load, overwrite_ini, backups_path, backup_roots, now, downloaded_ini,
          vault_calls>>

(***************************************************************************)
(* Bounds                                                                  *)
(***************************************************************************)
MaxIniCalls == 2
MaxVaultCalls == 2
MaxClock == 2

(***************************************************************************)
(* Paths                                                                   *)
(***************************************************************************)
\* a str and a pathlib.Path, each with its components
S(c) == [t |-> "str", c |-> c]
P(c) == [t |-> "path", c |-> c]

NoPath == P(<<"<unset>">>)
PackageName == "WWMI"
GameExe == "Client-Win64-Shipping.exe"

Drives == {"C:", "D:"}

\* the directories and files of the machine
Directories ==
    { <<"C:">>, <<"C:", "Games">>, <<"C:", "Games", "WuWa">>,
      <<"C:", "Games", "Empty">>, <<"D:">>, <<"D:", "WuWa">> }

Files ==
    { <<"C:", "Games", "notes.txt">>,
      <<"C:", "Games", "WuWa", GameExe>>,
      <<"D:", "WuWa", GameExe>> }

\* what the user can type or pick as a game folder
GameFolderInputs ==
    { S(<<>>),                               \* ''
      S(<<"Games", "WuWa">>),                \* relative
      S(<<"C:", "Games", "WuWa">>),          \* directory holding the executable
      S(<<"C:", "Games", "WuWa", "">>),      \* the same, typed with a trailing slash
      S(<<"C:", "Games", "Gone">>),          \* does not exist
      S(<<"C:", "Games", "notes.txt">>),     \* a file
      S(<<"C:", "Games", "Empty">>),         \* a directory without the executable
      S(<<"D:", "WuWa">>) }                  \* another installation

\* what a game integration's autodetect can come back with
AutodetectResults ==
    { P(<<"D:", "WuWa">>), P(<<"C:", "Games", "WuWa">>), P(<<"C:", "Games", "Empty">>),
      P(<<"C:", "Games", "Gone">>), P(<<"Games", "WuWa">>) }

IsPart(c) == c # "" /\ c # "."

\* pathlib.Path(x) for a str or a Path x
PathOf(x) == P(SelectSeq(x.c, IsPart))

\* str(path)
StrOf(p) == S(p.c)

is_absolute(p) == Len(p.c) > 0 /\ p.c[1] \in Drives
exists(p) == p.c \in Directories \cup Files
is_dir(p) == p.c \in Directories

validate_game_path_absolute_inverted(folder) ==
    LET p == PathOf(folder) IN
    IF is_absolute(p)
    THEN [err |-> "InvalidPath", path |-> NoPath, probes |-> <<>>]
    ELSE IF ~exists(p)
    THEN [err |-> "PathNotFound", path |-> NoPath, probes |-> <<"exists">>]
    ELSE IF ~is_dir(p)
    THEN [err |-> "NotADirectory", path |-> NoPath, probes |-> <<"exists", "is_dir">>]
    ELSE [err |-> "none", path |-> p, probes |-> <<"exists", "is_dir">>]

validate_game_path_no_dir_check(folder) ==
    LET p == PathOf(folder) IN
    IF ~is_absolute(p)
    THEN [err |-> "InvalidPath", path |-> NoPath, probes |-> <<>>]
    ELSE IF ~exists(p)
    THEN [err |-> "PathNotFound", path |-> NoPath, probes |-> <<"exists">>]
    ELSE [err |-> "none", path |-> p, probes |-> <<"exists">>]

\* the result, the error raised ("none" when it returns) and the filesystem
\* checks made on the way
validate_game_path(folder) ==
    LET p == PathOf(folder) IN
    IF ~is_absolute(p)
    THEN [err |-> "InvalidPath", path |-> NoPath, probes |-> <<>>]
    ELSE IF ~exists(p)
    THEN [err |-> "PathNotFound", path |-> NoPath, probes |-> <<"exists">>]
    ELSE IF ~is_dir(p)
    THEN [err |-> "NotADirectory", path |-> NoPath, probes |-> <<"exists", "is_dir">>]
    ELSE [err |-> "none", path |-> p, probes |-> <<"exists", "is_dir">>]

\* a game integration's executable-location rule
validate_game_exe_path(p) ==
    IF Append(p.c, GameExe) \in Files
    THEN [err |-> "none", path |-> P(Append(p.c, GameExe))]
    ELSE [err |-> "ValidationError", path |-> NoPath]

(***************************************************************************)
(* d3dx.ini and the d3dx_ini settings table                                *)
(***************************************************************************)
\* values of the settings table: int, str, or None (a JSON null)
IntVal(n) == [t |-> "int", n |-> n, s |-> ""]
StrVal(s) == [t |-> "str", n |-> 0, s |-> s]
None == [t |-> "none", n |-> 0, s |-> ""]

IntStr(n) == CASE n = 0 -> "0" [] n = 1 -> "1" [] n = 2 -> "2"

\* str(value), as written into the document
Str(v) == IF v.t = "int" THEN IntStr(v.n) ELSE v.s

Entry(section, option, values) == [section |-> section, option |-> option, values |-> values]
OnOff(on, off) == ("on" :> on) @@ ("off" :> off)

\* the (section, option) pairs a document can hold
Options ==
    { <<"Loader", "loader">>, <<"Logging", "calls">>, <<"Logging", "debug">>,
      <<"Logging", "show_warnings">>, <<"Hunting", "hunting">>, <<"Hunting", "dump_shaders">> }

NoKey == <<"", "">>
Absent == "<absent>"

SettingNames == <<"core", "debug_logging", "mute_warnings", "enable_hunting", "dump_shaders">>

DefaultCore == << Entry("Loader", "loader", StrVal("XXMI Launcher.exe")) >>
DefaultDebugLogging ==
    << Entry("Logging", "calls", OnOff(IntVal(1), IntVal(0))),
       Entry("Logging", "debug", OnOff(IntVal(1), IntVal(0))) >>
DefaultMuteWarnings == << Entry("Logging", "show_warnings", OnOff(IntVal(0), IntVal(1))) >>
DefaultEnableHunting == << Entry("Hunting", "hunting", OnOff(IntVal(2), IntVal(0))) >>
DefaultDumpShaders == << Entry("Hunting", "dump_shaders", OnOff(StrVal("deferred"), StrVal("off"))) >>

DefaultMapping ==
    ("core" :> DefaultCore) @@ ("debug_logging" :> DefaultDebugLogging) @@
    ("mute_warnings" :> DefaultMuteWarnings) @@ ("enable_hunting" :> DefaultEnableHunting) @@
    ("dump_shaders" :> DefaultDumpShaders)

\* debug_logging's second option has no "off" branch
MappingNoOff ==
    [DefaultMapping EXCEPT !["debug_logging"] =
        << Entry("Logging", "calls", OnOff(IntVal(1), IntVal(0))),
           Entry("Logging", "debug", ("on" :> IntVal(1))) >>]

\* mute_warnings maps "off" to null
MappingNull ==
    [DefaultMapping EXCEPT !["mute_warnings"] =
        << Entry("Logging", "show_warnings", OnOff(IntVal(0), None)) >>]

\* no enable_hunting group
MappingNoHunting ==
    ("core" :> DefaultCore) @@ ("debug_logging" :> DefaultDebugLogging) @@
    ("mute_warnings" :> DefaultMuteWarnings) @@ ("dump_shaders" :> DefaultDumpShaders)

\* core pins an option that debug_logging also drives
MappingOverlap ==
    [DefaultMapping EXCEPT !["core"] =
        << Entry("Loader", "loader", StrVal("XXMI Launcher.exe")),
           Entry("Logging", "calls", IntVal(0)) >>]

\* an empty table
MappingEmpty == << >>

Mappings ==
    { DefaultMapping, MappingNoOff, MappingNull, MappingNoHunting, MappingOverlap, MappingEmpty }

\* d3dx.ini as the package ships it, and as a user left it
PackagedOptions ==
    [k \in Options |->
        CASE k = <<"Loader", "loader">> -> "XXMI Launcher.exe"
          [] k = <<"Logging", "calls">> -> "0"
          [] k = <<"Logging", "debug">> -> "0"
          [] k = <<"Logging", "show_warnings">> -> "1"
          [] k = <<"Hunting", "hunting">> -> "0"
          [] OTHER -> Absent]

EditedOptions ==
    [PackagedOptions EXCEPT ![<<"Loader", "loader">>] = "3DMigoto Loader.exe",
                            ![<<"Logging", "calls">>] = "1",
                            ![<<"Hunting", "hunting">>] = "2"]

NoFile == [exists |-> FALSE, opts |-> [k \in Options |-> Absent]]
File(opts) == [exists |-> TRUE, opts |-> opts]

\* IniHandler(settings, f): the parsed document, not yet modified
Parse(file) == [opts |-> file.opts, modified |-> FALSE]

\* ini.to_string(), as the file then reads
ToFile(doc) == File(doc.opts)

\* ini.is_modified()
is_modified(doc) == doc.modified

\* ini.set_option(section, option, value): the value is stored as its string;
\* the document is modified when the option is new or its string differs.
\* failKey is the option, if any, the document refuses to set.
set_option(doc, section, option, value, failKey) ==
    IF <<section, option>> = failKey
    THEN [err |-> "error", doc |-> doc]
    ELSE IF doc.opts[<<section, option>>] = Str(value)
    THEN [err |-> "none", doc |-> doc]
    ELSE [err |-> "none",
          doc |-> [opts |-> [doc.opts EXCEPT ![<<section, option>>] = Str(value)],
                   modified |-> TRUE]]

\* what a set_default_ini_values call comes to: the error raised ("none" when
\* it returns), the document as the call left it, and what the error names
Projected(err, ini, section, option, key) ==
    [err |-> err, ini |-> ini, section |-> section, option |-> option, key |-> key]

RECURSIVE ProjectEntries(_, _, _, _, _, _)
ProjectEntries(ini, entries, i, setting_type, setting_value, failKey) ==
    IF i > Len(entries)
    THEN Projected("none", ini, "", "", "")
    ELSE
      LET section == entries[i].section
          option == entries[i].option
          values == entries[i].values
          key == IF setting_type = "constant" THEN "None"
                 ELSE IF setting_type = "bool"
                      THEN (IF setting_value THEN "on" ELSE "off")
                      ELSE setting_value
      IN
      IF setting_type # "constant" /\ key \notin DOMAIN values
      THEN \* values[key] raises KeyError(key)
           Projected("KeyError", ini, "", "", key)
      ELSE
        LET value == IF setting_type = "constant" THEN values ELSE values[key] IN
        IF value = None
        THEN Projected("MissingSettingValue", ini, section, option, key)
        ELSE
          LET r == set_option(ini, section, option, value, failKey) IN
          IF r.err # "none"
          THEN Projected("IniWriteFailure", ini, section, option, key)
          ELSE ProjectEntries(r.doc, entries, i + 1, setting_type, setting_value, failKey)

set_default_ini_values_missing_group_skipped(ini, setting_name, setting_type, setting_value, failKey) ==
    IF setting_name \notin DOMAIN d3dx_ini
    THEN Projected("none", ini, "", "", "")
    ELSE ProjectEntries(ini, d3dx_ini[setting_name], 1, setting_type, setting_value, failKey)

set_default_ini_values(ini, setting_name, setting_type, setting_value, failKey) ==
    IF setting_name \notin DOMAIN d3dx_ini
    THEN Projected("MissingSetting", ini, "", "", "")
    ELSE ProjectEntries(ini, d3dx_ini[setting_name], 1, setting_type, setting_value, failKey)

\* the five set_default_ini_values calls of update_d3dx_ini, from the g-th on
RECURSIVE ProjectGroups(_, _, _)
ProjectGroups(ini, g, failKey) ==
    IF g > Len(SettingNames)
    THEN Projected("none", ini, "", "", "")
    ELSE
      LET r == IF g = 1
               THEN set_default_ini_values(ini, SettingNames[g], "constant", FALSE, failKey)
               ELSE set_default_ini_values(ini, SettingNames[g], "bool",
                                           flags[SettingNames[g]], failKey)
      IN IF r.err # "none" THEN r ELSE ProjectGroups(r.ini, g + 1, failKey)

Updated(err, file, modified, wrote, r) ==
    [err |-> err, file |-> file, modified |-> modified, wrote |-> wrote,
     section |-> r.section, option |-> r.option, key |-> r.key]

update_d3dx_ini_errors_caught(file, failKey) ==
    IF ~file.exists
    THEN Updated("FileNotFoundError", file, FALSE, FALSE, Projected("", Parse(file), "", "", ""))
    ELSE
      LET r == ProjectGroups(Parse(file), 1, failKey) IN
      IF r.err # "none"
      THEN Updated("none", file, is_modified(r.ini), FALSE, r)
      ELSE IF is_modified(r.ini)
      THEN Updated("none", ToFile(r.ini), TRUE, TRUE, r)
      ELSE Updated("none", file, FALSE, FALSE, r)

update_d3dx_ini_always_writes(file, failKey) ==
    IF ~file.exists
    THEN Updated("FileNotFoundError", file, FALSE, FALSE, Projected("", Parse(file), "", "", ""))
    ELSE
      LET r == ProjectGroups(Parse(file), 1, failKey) IN
      IF r.err # "none"
      THEN Updated(r.err, file, is_modified(r.ini), FALSE, r)
      ELSE Updated("none", ToFile(r.ini), is_modified(r.ini), TRUE, r)

update_d3dx_ini_writes_before_error(file, failKey) ==
    IF ~file.exists
    THEN Updated("FileNotFoundError", file, FALSE, FALSE, Projected("", Parse(file), "", "", ""))
    ELSE
      LET r == ProjectGroups(Parse(file), 1, failKey) IN
      IF is_modified(r.ini)
      THEN Updated(r.err, ToFile(r.ini), TRUE, TRUE, r)
      ELSE Updated(r.err, file, FALSE, FALSE, r)

\* update_d3dx_ini on the file as it is: the error raised ("none" when it
\* returns), the file afterwards, the document's modified flag when the call
\* ended, and whether the file was rewritten
update_d3dx_ini(file, failKey) ==
    IF ~file.exists
    THEN Updated("FileNotFoundError", file, FALSE, FALSE, Projected("", Parse(file), "", "", ""))
    ELSE
      LET r == ProjectGroups(Parse(file), 1, failKey) IN
      IF r.err # "none"
      THEN Updated(r.err, file, is_modified(r.ini), FALSE, r)
      ELSE IF is_modified(r.ini)
      THEN Updated("none", ToFile(r.ini), TRUE, TRUE, r)
      ELSE Updated("none", file, FALSE, FALSE, r)

(***************************************************************************)
(* Backups                                                                 *)
(***************************************************************************)
\* self.backups_path before the first initialize_backup
NoBackupsPath == << >>

\* the names a file under the importer path or a backup root can have
FileNames == {"d3dx.ini", "d3dx.ini.bak"}

\* metadata.package_name + ' ' + the timestamp
BackupName(t) == <<PackageName, t>>
BackupNames == {BackupName(t) : t \in 1..MaxClock}

\* a directory under Paths.App.Backups: whether it exists, and its files by name
NoRoot == [exists |-> FALSE, files |-> [n \in FileNames |-> NoFile]]

initialize_backup(t) == BackupName(t)

\* Paths.verify_path(path): the directory exists afterwards
verify_path(roots, path) == [roots EXCEPT ![path].exists = TRUE]

Vaulted(err, file, roots, copied) ==
    [err |-> err, file |-> file, roots |-> roots, copied |-> copied]

backup_creates_root_first(name, file, path, roots) ==
    IF path = NoBackupsPath
    THEN Vaulted("TypeError", file, roots, FALSE)
    ELSE IF ~file.exists
    THEN Vaulted("none", file, verify_path(roots, path), FALSE)
    ELSE Vaulted("none", file,
                 [verify_path(roots, path) EXCEPT ![path].files[name] = file], TRUE)

backup_without_copy(name, file, path, roots) ==
    IF ~file.exists
    THEN Vaulted("none", file, roots, FALSE)
    ELSE IF path = NoBackupsPath
    THEN Vaulted("TypeError", file, roots, FALSE)
    ELSE Vaulted("none", file, verify_path(roots, path), FALSE)

\* backup(file_path) of the file named so, with self.backups_path = path: the
\* error raised ("none" when it returns), the file and the backup directories
\* afterwards, and whether a copy was made
backup(name, file, path, roots) ==
    IF ~file.exists
    THEN Vaulted("none", file, roots, FALSE)
    ELSE IF path = NoBackupsPath
    THEN Vaulted("TypeError", file, roots, FALSE)
    ELSE Vaulted("none", file,
                 [verify_path(roots, path) EXCEPT ![path].files[name] = file], TRUE)

restore_guard_inverted(name, file, path, roots) ==
    IF file.exists
    THEN Vaulted("none", file, roots, FALSE)
    ELSE IF path = NoBackupsPath
    THEN Vaulted("TypeError", file, roots, FALSE)
    ELSE IF ~roots[path].exists \/ ~roots[path].files[name].exists
    THEN Vaulted("FileNotFoundError", file, roots, FALSE)
    ELSE Vaulted("none", roots[path].files[name], roots, TRUE)

restore_without_guard(name, file, path, roots) ==
    IF path = NoBackupsPath
    THEN Vaulted("TypeError", file, roots, FALSE)
    ELSE IF ~roots[path].exists \/ ~roots[path].files[name].exists
    THEN Vaulted("FileNotFoundError", file, roots, FALSE)
    ELSE Vaulted("none", roots[path].files[name], roots, TRUE)

\* restore(file_path), likewise
restore(name, file, path, roots) ==
    IF ~file.exists
    THEN Vaulted("none", file, roots, FALSE)
    ELSE IF path = NoBackupsPath
    THEN Vaulted("TypeError", file, roots, FALSE)
    ELSE IF ~roots[path].exists \/ ~roots[path].files[name].exists
    THEN Vaulted("FileNotFoundError", file, roots, FALSE)
    ELSE Vaulted("none", roots[path].files[name], roots, TRUE)

\* move_contents(downloaded_asset_path, importer_path), for d3dx.ini: the file
\* of the package replaces the one in place
move_contents(downloaded, file) ==
    IF downloaded.exists THEN downloaded ELSE file

(***************************************************************************)
(* State                                                                   *)
(***************************************************************************)
\* an event fired, a blocking call answered, or a step of start_game taken
Ev(kind, name, arg) == [kind |-> kind, name |-> name, arg |-> arg]
NoArg == S(<<>>)

NoValidate == [called |-> FALSE, folder |-> S(<<>>), result |-> validate_game_path(S(<<>>))]
NoProjection ==
    [called |-> FALSE, setting_name |-> "", setting_type |-> "", key |-> "",
     failKey |-> NoKey, before |-> Parse(NoFile), result |-> Projected("none", Parse(NoFile), "", "", "")]

NoLoad ==
    [called |-> FALSE, game_folder |-> S(<<>>), tried |-> FALSE, detected |-> FALSE,
     candidate |-> NoPath]

\* no launch is running
Quiet == pc = "idle"

NoEntry == [game_folder |-> S(<<>>), ini_file |-> NoFile]

\* the Migoto flags tried
FlagChoices ==
    { [debug_logging |-> FALSE, mute_warnings |-> FALSE, enable_hunting |-> FALSE, dump_shaders |-> FALSE],
      [debug_logging |-> TRUE, mute_warnings |-> TRUE, enable_hunting |-> TRUE, dump_shaders |-> TRUE],
      [debug_logging |-> TRUE, mute_warnings |-> FALSE, enable_hunting |-> FALSE, dump_shaders |-> TRUE],
      [debug_logging |-> FALSE, mute_warnings |-> TRUE, enable_hunting |-> TRUE, dump_shaders |-> FALSE] }

\* the options whose set_option call is tried failing
FailKeys == { NoKey, <<"Logging", "calls">>, <<"Hunting", "hunting">> }

config == <<game_folder, d3dx_ini, flags>>
locals == <<game_path, game_exe_path>>
direct == <<last_validate, last_projection, ini_calls, last_load>>
vault == <<overwrite_ini, backups_path, backup_roots, now, downloaded_ini, vault_calls>>

\* nothing is recorded yet of the requests made outside a launch; the two pure
\* requests (ValidateGameFolder, set_default_ini_values) change no program
\* state, so one of them is recorded per quiet period
Unobserved ==
    /\ last_validate = NoValidate
    /\ last_projection = NoProjection
    /\ last_load = NoLoad

ResetDirect ==
    /\ last_validate' = NoValidate
    /\ last_projection' = NoProjection
    /\ ini_calls' = << >>
    /\ last_load' = NoLoad

Init ==
    /\ game_folder \in GameFolderInputs
    /\ d3dx_ini \in Mappings
    /\ flags \in FlagChoices
    /\ ini_file \in {NoFile, File(PackagedOptions), File(EditedOptions)}
    /\ pc = "idle"
    /\ outcome = "none"
    /\ game_path = NoPath
    /\ game_exe_path = NoPath
    /\ trace = << >>
    /\ entry = NoEntry
    /\ last_validate = NoValidate
    /\ last_projection = NoProjection
    /\ ini_calls = << >>
    /\ last_load = NoLoad
    /\ overwrite_ini = TRUE
    /\ backups_path = NoBackupsPath
    /\ backup_roots = [b \in BackupNames |-> NoRoot]
    /\ now = 1
    /\ downloaded_ini = NoFile
    /\ vault_calls = << >>

(***************************************************************************)
(* start_game                                                              *)
(***************************************************************************)
\* the StartGame event reaches the handler
start_game ==
    /\ Quiet
    /\ pc' = "validate_package_files"
    /\ outcome' = "running"
    /\ trace' = << >>
    /\ entry' = [game_folder |-> game_folder, ini_file |-> ini_file]
    /\ game_path' = NoPath
    /\ game_exe_path' = NoPath
    /\ ResetDirect
    /\ UNCHANGED <<config, ini_file, vault>>

\* a start_game run ends with an exception reaching its caller
Raise(err, tr) ==
    /\ pc' = "done"
    /\ outcome' = err
    /\ trace' = tr

\* what the forced reinstall has done to d3dx.ini by the time Fire returns
ReinstallEffect(restored) == IF restored THEN File(PackagedOptions) ELSE ini_file

validate_package_files_outcome_cancel_ignored(ini_exists, user_requested_restore) ==
    IF ini_exists
    THEN [asked |-> FALSE, err |-> "none", update |-> FALSE]
    ELSE [asked |-> TRUE, err |-> "none", update |-> user_requested_restore]

validate_package_files_outcome_aborts(ini_exists, user_requested_restore) ==
    IF ini_exists
    THEN [asked |-> FALSE, err |-> "none", update |-> FALSE]
    ELSE IF ~user_requested_restore
    THEN [asked |-> TRUE, err |-> "CorruptInstallation", update |-> FALSE]
    ELSE [asked |-> TRUE, err |-> "RestoreRequested", update |-> TRUE]

\* validate_package_files: whether the user is asked, the error raised ("none"
\* when it returns) and whether the forced reinstall is requested
validate_package_files_outcome(ini_exists, user_requested_restore) ==
    IF ini_exists
    THEN [asked |-> FALSE, err |-> "none", update |-> FALSE]
    ELSE IF ~user_requested_restore
    THEN [asked |-> TRUE, err |-> "CorruptInstallation", update |-> FALSE]
    ELSE [asked |-> TRUE, err |-> "none", update |-> TRUE]

Answer(user_requested_restore) == IF user_requested_restore THEN "Restore" ELSE "Cancel"

validate_package_files ==
    /\ pc = "validate_package_files"
    /\ \E user_requested_restore \in BOOLEAN, restored \in BOOLEAN :
         LET o == validate_package_files_outcome(ini_file.exists, user_requested_restore)
             tr == trace
                   \o (IF o.asked
                       THEN << Ev("Call", "ShowError", S(<<Answer(user_requested_restore)>>)) >>
                       ELSE << >>)
                   \o (IF o.update
                       THEN << Ev("Fire", "Update", S(<<PackageName>>)) >>
                       ELSE << >>)
         IN /\ ini_file' = IF o.update THEN ReinstallEffect(restored) ELSE ini_file
            /\ IF o.err # "none"
               THEN Raise(o.err, tr)
               ELSE /\ pc' = "update_d3dx_ini"
                    /\ trace' = Append(tr, Ev("Step", "validate_package_files", NoArg))
                    /\ UNCHANGED outcome
    /\ UNCHANGED <<config, locals, entry, direct, vault>>

\* what update_d3dx_ini fires and opens on the way to result r
UpdateTrace(r) ==
    << Ev("Fire", "StatusUpdate", NoArg), Ev("Step", "open_r", NoArg) >>
    \o (IF r.wrote THEN << Ev("Step", "open_w", NoArg) >> ELSE << >>)

start_game_update_d3dx_ini ==
    /\ pc = "update_d3dx_ini"
    /\ \E failKey \in FailKeys :
         LET r == update_d3dx_ini(ini_file, failKey) IN
         /\ ini_file' = r.file
         /\ IF r.err # "none"
            THEN Raise(r.err, trace \o UpdateTrace(r))
            ELSE /\ pc' = "resolve"
                 /\ trace' = trace \o UpdateTrace(r)
                             \o << Ev("Step", "update_d3dx_ini", NoArg) >>
                 /\ UNCHANGED outcome
    /\ UNCHANGED <<config, locals, entry, direct, vault>>

resolve_game_folder_exe_unchecked(folder) ==
    LET v == validate_game_path(folder) IN
    IF v.err # "none"
    THEN [err |-> v.err, game_path |-> NoPath, game_exe_path |-> NoPath]
    ELSE [err |-> "none", game_path |-> v.path, game_exe_path |-> P(Append(v.path.c, GameExe))]

\* validate_game_path, then validate_game_exe_path on its result: the error
\* raised ("none" when both return), the game path and its executable
resolve_game_folder(folder) ==
    LET v == validate_game_path(folder) IN
    IF v.err # "none"
    THEN [err |-> v.err, game_path |-> NoPath, game_exe_path |-> NoPath]
    ELSE LET x == validate_game_exe_path(v.path) IN
         IF x.err # "none"
         THEN [err |-> x.err, game_path |-> NoPath, game_exe_path |-> NoPath]
         ELSE [err |-> "none", game_path |-> v.path, game_exe_path |-> x.path]

\* the outer try block: the configured folder and its executable
start_game_resolve ==
    /\ pc = "resolve"
    /\ LET r == resolve_game_folder(game_folder)
       IN IF r.err = "none"
          THEN /\ game_path' = r.game_path
               /\ game_exe_path' = r.game_exe_path
               /\ pc' = "initialize_game_launch"
               /\ trace' = Append(trace, Ev("Step", "resolved", r.game_path))
          ELSE /\ pc' = "fallback"
               /\ trace' = Append(trace, Ev("Step", "resolve_failed", NoArg))
               /\ UNCHANGED locals
    /\ UNCHANGED <<config, ini_file, outcome, entry, direct, vault>>

\* the except block: autodetect, validate, locate, write back; or open settings.
\* autodetect_game_folder raises, or returns one of AutodetectResults.
start_game_fallback ==
    /\ pc = "fallback"
    /\ \E detected \in BOOLEAN, folder \in AutodetectResults :
         LET r == resolve_game_folder(folder)
             called == IF detected
                       THEN Ev("Step", "autodetect_game_folder", folder)
                       ELSE Ev("Step", "autodetect_game_folder_raised", NoArg)
         IN IF detected /\ r.err = "none"
            THEN /\ game_path' = r.game_path
                 /\ game_exe_path' = r.game_exe_path
                 /\ game_folder' = StrOf(folder)
                 /\ pc' = "initialize_game_launch"
                 /\ outcome' = outcome
                 /\ trace' = trace \o << called, Ev("Step", "resolved", r.game_path) >>
            ELSE /\ pc' = "done"
                 /\ outcome' = "returned"
                 /\ trace' = trace \o << called, Ev("Fire", "OpenSettings", NoArg) >>
                 /\ UNCHANGED <<locals, game_folder>>
    /\ UNCHANGED <<d3dx_ini, flags, ini_file, entry, direct, vault>>

\* the game integration's pre-launch hook
initialize_game_launch ==
    /\ pc = "initialize_game_launch"
    /\ \E ok \in BOOLEAN :
         IF ok
         THEN /\ pc' = "handoff"
              /\ trace' = trace \o << Ev("Step", "initialize_game_launch", game_path),
                                      Ev("Step", "initialize_game_launch_returned", NoArg) >>
              /\ UNCHANGED outcome
         ELSE Raise("HookError", Append(trace, Ev("Step", "initialize_game_launch", game_path)))
    /\ UNCHANGED <<config, locals, ini_file, entry, direct, vault>>

start_game_handoff ==
    /\ pc = "handoff"
    /\ pc' = "done"
    /\ outcome' = "returned"
    /\ trace' = Append(trace, Ev("Fire", "StartAndInject", game_exe_path))
    /\ UNCHANGED <<config, locals, ini_file, entry, direct, vault>>

(***************************************************************************)
(* Requests made while no launch is running                                *)
(***************************************************************************)
\* GameFolderEntry.validate_game_folder -> ValidateGameFolder -> validate_game_path
ValidateGameFolder ==
    /\ Quiet
    /\ Unobserved /\ ini_calls = << >>
    /\ \E folder \in GameFolderInputs \cup AutodetectResults :
         last_validate' = [called |-> TRUE, folder |-> folder,
                           result |-> validate_game_path(folder)]
    /\ UNCHANGED <<config, ini_file, pc, outcome, locals, trace, entry, last_projection,
                 ini_calls, last_load, vault>>

\* ChangeGameFolderButton.change_game_folder
change_game_folder ==
    /\ Quiet
    /\ \E picked \in GameFolderInputs :
         IF picked = S(<<>>)
         THEN UNCHANGED game_folder
         ELSE game_folder' = picked
    /\ ResetDirect
    /\ UNCHANGED <<d3dx_ini, flags, ini_file, pc, outcome, locals, trace, entry, vault>>

\* the discriminators tried: the two Bool branches and an unmapped Map value
Discriminators == {"on", "off", "high"}

\* one set_default_ini_values call on the parsed d3dx.ini
call_set_default_ini_values ==
    /\ Quiet
    /\ Unobserved /\ ini_calls = << >>
    /\ ini_file.exists
    /\ \E g \in 1..Len(SettingNames), setting_type \in {"constant", "bool", "map"},
          key \in Discriminators, failKey \in FailKeys :
         /\ (setting_type = "constant") <=> (g = 1)
         /\ setting_type = "constant" => key = "on"
         /\ setting_type = "bool" => key \in {"on", "off"}
         /\ LET setting_value == IF setting_type = "bool" THEN key = "on" ELSE key
            IN last_projection' =
                 [called |-> TRUE, setting_name |-> SettingNames[g],
                  setting_type |-> setting_type,
                  key |-> IF setting_type = "constant" THEN "None" ELSE key,
                  failKey |-> failKey, before |-> Parse(ini_file),
                  result |-> set_default_ini_values(Parse(ini_file), SettingNames[g],
                                                    setting_type, setting_value, failKey)]
    /\ UNCHANGED <<config, ini_file, pc, outcome, locals, trace, entry, last_validate,
                 ini_calls, last_load, vault>>

\* one more update_d3dx_ini call, configuration and flags as they are
call_update_d3dx_ini ==
    /\ Quiet
    /\ Unobserved
    /\ Len(ini_calls) < MaxIniCalls
    /\ \E failKey \in FailKeys :
         LET r == update_d3dx_ini(ini_file, failKey) IN
         /\ ini_file' = r.file
         /\ ini_calls' = Append(ini_calls, [before |-> ini_file, result |-> r])
    /\ UNCHANGED <<config, pc, outcome, locals, trace, entry, last_validate, last_projection,
                 last_load, vault>>

(***************************************************************************)
(* load                                                                    *)
(***************************************************************************)
load_unvalidated_write_back(folder, detected, candidate) ==
    IF resolve_game_folder(folder).err = "none"
    THEN [tried |-> FALSE, detected |-> FALSE, candidate |-> NoPath, game_folder |-> folder]
    ELSE IF ~detected
    THEN [tried |-> TRUE, detected |-> FALSE, candidate |-> NoPath, game_folder |-> folder]
    ELSE [tried |-> TRUE, detected |-> TRUE, candidate |-> candidate,
          game_folder |-> StrOf(candidate)]

\* the warm-up of load on the configured folder: whether the fallback was
\* entered, whether autodetect_game_folder returned (with candidate), and
\* game_folder afterwards; every exception ends in the inner except
load_warm_up(folder, detected, candidate) ==
    IF resolve_game_folder(folder).err = "none"
    THEN [tried |-> FALSE, detected |-> FALSE, candidate |-> NoPath, game_folder |-> folder]
    ELSE IF ~detected
    THEN [tried |-> TRUE, detected |-> FALSE, candidate |-> NoPath, game_folder |-> folder]
    ELSE IF resolve_game_folder(candidate).err # "none"
    THEN [tried |-> TRUE, detected |-> TRUE, candidate |-> candidate, game_folder |-> folder]
    ELSE [tried |-> TRUE, detected |-> TRUE, candidate |-> candidate,
          game_folder |-> StrOf(candidate)]

load ==
    /\ Quiet
    /\ \E detected \in BOOLEAN, candidate \in AutodetectResults :
         LET r == load_warm_up(game_folder, detected, candidate) IN
         /\ game_folder' = r.game_folder
         /\ last_load' = [called |-> TRUE, game_folder |-> game_folder, tried |-> r.tried,
                          detected |-> r.detected, candidate |-> r.candidate]
    /\ last_validate' = NoValidate
    /\ last_projection' = NoProjection
    /\ ini_calls' = << >>
    /\ UNCHANGED <<d3dx_ini, flags, ini_file, pc, outcome, locals, trace, entry, vault>>

\* the handler is back in the event loop
start_game_return ==
    /\ pc = "done"
    /\ pc' = "idle"
    /\ outcome' = "none"
    /\ trace' = << >>
    /\ entry' = NoEntry
    /\ game_path' = NoPath
    /\ game_exe_path' = NoPath
    /\ UNCHANGED <<config, ini_file, direct, vault>>

Next ==
    \/ start_game
    \/ start_game_return
    \/ validate_package_files
    \/ start_game_update_d3dx_ini
    \/ start_game_resolve
    \/ start_game_fallback
    \/ initialize_game_launch
    \/ start_game_handoff
    \/ ValidateGameFolder
    \/ change_game_folder
    \/ call_set_default_ini_values
    \/ call_update_d3dx_ini
    \/ load

Spec == Init /\ [][Next]_vars

(***************************************************************************)
(* install_latest_version                                                  *)
(***************************************************************************)
\* the installer calls install_latest_version on the package it downloaded
install_latest_version ==
    /\ Quiet
    /\ \E shipped \in {NoFile, File(PackagedOptions)} : downloaded_ini' = shipped
    /\ pc' = "initialize_backup"
    /\ outcome' = "running"
    /\ trace' = << Ev("Fire", "InitializeInstallation", NoArg) >>
    /\ entry' = [game_folder |-> game_folder, ini_file |-> ini_file]
    /\ vault_calls' = << >>
    /\ UNCHANGED <<config, ini_file, locals, direct, overwrite_ini, backups_path,
                   backup_roots, now>>

install_initialize_backup ==
    /\ pc = "initialize_backup"
    /\ backups_path' = initialize_backup(now)
    /\ pc' = "backup"
    /\ trace' = Append(trace, Ev("Step", "initialize_backup", NoArg))
    /\ UNCHANGED <<config, ini_file, outcome, locals, entry, direct, overwrite_ini,
                   backup_roots, now, downloaded_ini, vault_calls>>

install_backup ==
    /\ pc = "backup"
    /\ LET r == backup("d3dx.ini", ini_file, backups_path, backup_roots) IN
       /\ backup_roots' = r.roots
       /\ IF r.err # "none"
          THEN Raise(r.err, Append(trace, Ev("Step", "backup_raised", NoArg)))
          ELSE /\ pc' = "move_contents"
               /\ trace' = Append(trace, Ev("Step", "backup", NoArg))
               /\ UNCHANGED outcome
    /\ UNCHANGED <<config, ini_file, locals, entry, direct, overwrite_ini, backups_path,
                   now, downloaded_ini, vault_calls>>

install_move_contents ==
    /\ pc = "move_contents"
    /\ ini_file' = move_contents(downloaded_ini, ini_file)
    /\ downloaded_ini' = NoFile
    /\ trace' = Append(trace, Ev("Step", "move_contents",
                                  IF downloaded_ini.exists THEN S(<<"d3dx.ini">>) ELSE NoArg))
    /\ IF overwrite_ini
       THEN pc' = "done" /\ outcome' = "returned"
       ELSE pc' = "restore" /\ UNCHANGED outcome
    /\ UNCHANGED <<config, locals, entry, direct, overwrite_ini, backups_path,
                   backup_roots, now, vault_calls>>

install_restore ==
    /\ pc = "restore"
    /\ LET r == restore("d3dx.ini", ini_file, backups_path, backup_roots) IN
       /\ ini_file' = r.file
       /\ IF r.err # "none"
          THEN Raise(r.err, Append(trace, Ev("Step", "restore_raised", NoArg)))
          ELSE /\ pc' = "done"
               /\ outcome' = "returned"
               /\ trace' = Append(trace, Ev("Step", IF r.copied THEN "restore" ELSE "restore_skipped", NoArg))
    /\ UNCHANGED <<config, locals, entry, direct, vault>>

\* install_latest_version is back at its caller
install_return ==
    /\ pc = "done"
    /\ pc' = "idle"
    /\ outcome' = "none"
    /\ trace' = << >>
    /\ entry' = NoEntry
    /\ UNCHANGED <<config, ini_file, locals, direct, vault>>

(***************************************************************************)
(* Backup calls made while no install is running, and what else touches    *)
(* d3dx.ini and the clock                                                  *)
(***************************************************************************)
VaultCall(op, name, r) ==
    [op |-> op, name |-> name, path |-> backups_path, before |-> ini_file,
     roots |-> backup_roots, result |-> r]

call_initialize_backup ==
    /\ Quiet
    /\ backups_path' = initialize_backup(now)
    /\ UNCHANGED <<config, ini_file, pc, outcome, locals, trace, entry, direct,
                   overwrite_ini, backup_roots, now, downloaded_ini, vault_calls>>

call_backup ==
    /\ Quiet
    /\ Len(vault_calls) < MaxVaultCalls
    /\ LET r == backup("d3dx.ini", ini_file, backups_path, backup_roots) IN
       /\ backup_roots' = r.roots
       /\ vault_calls' = Append(vault_calls, VaultCall("backup", "d3dx.ini", r))
    /\ UNCHANGED <<config, ini_file, pc, outcome, locals, trace, entry, direct,
                   overwrite_ini, backups_path, now, downloaded_ini>>

call_restore ==
    /\ Quiet
    /\ Len(vault_calls) < MaxVaultCalls
    /\ LET r == restore("d3dx.ini", ini_file, backups_path, backup_roots) IN
       /\ ini_file' = r.file
       /\ vault_calls' = Append(vault_calls, VaultCall("restore", "d3dx.ini", r))
    /\ UNCHANGED <<config, pc, outcome, locals, trace, entry, direct,
                   overwrite_ini, backups_path, backup_roots, now, downloaded_ini>>

\* the user, or the injector, rewrites d3dx.ini
write_ini ==
    /\ Quiet
    /\ \E opts \in {PackagedOptions, EditedOptions} :
         /\ ini_file # File(opts)
         /\ ini_file' = File(opts)
    /\ UNCHANGED <<config, pc, outcome, locals, trace, entry, direct, vault>>

\* d3dx.ini is deleted
remove_ini ==
    /\ Quiet
    /\ ini_file.exists
    /\ ini_file' = NoFile
    /\ UNCHANGED <<config, pc, outcome, locals, trace, entry, direct, vault>>

\* a second passes
tick ==
    /\ Quiet
    /\ now < MaxClock
    /\ now' = now + 1
    /\ UNCHANGED <<config, ini_file, pc, outcome, locals, trace, entry, direct,
                   overwrite_ini, backups_path, backup_roots, downloaded_ini, vault_calls>>

InitInstall ==
    /\ game_folder = S(<<"C:", "Games", "WuWa">>)
    /\ d3dx_ini = DefaultMapping
    /\ flags \in {f \in FlagChoices : ~f.debug_logging /\ ~f.mute_warnings}
    /\ ini_file \in {NoFile, File(PackagedOptions), File(EditedOptions)}
    /\ pc = "idle"
    /\ outcome = "none"
    /\ game_path = NoPath
    /\ game_exe_path = NoPath
    /\ trace = << >>
    /\ entry = NoEntry
    /\ last_validate = NoValidate
    /\ last_projection = NoProjection
    /\ ini_calls = << >>
    /\ last_load = NoLoad
    /\ overwrite_ini \in BOOLEAN
    /\ backups_path = NoBackupsPath
    /\ backup_roots = [b \in BackupNames |-> NoRoot]
    /\ now = 1
    /\ downloaded_ini = NoFile
    /\ vault_calls = << >>

NextInstall ==
    \/ install_latest_version
    \/ install_initialize_backup
    \/ install_backup
    \/ install_move_contents
    \/ install_restore
    \/ install_return
    \/ call_initialize_backup
    \/ call_backup
    \/ call_restore
    \/ write_ini
    \/ remove_ini
    \/ tick

InstallSpec == InitInstall /\ [][NextInstall]_vars

(***************************************************************************)
(* Reading a run's trace                                                   *)
(***************************************************************************)
Named(name) == {i \in DOMAIN trace : trace[i].name = name}
Happened(name) == Named(name) # {}
Answered(answer) == Ev("Call", "ShowError", S(<<answer>>)) \in {trace[i] : i \in DOMAIN trace}
Last == trace[Len(trace)]

\* first position of an entry named so; beyond the trace when there is none
Pos(name) == IF Happened(name) THEN CHOOSE i \in Named(name) : \A j \in Named(name) : i <= j
             ELSE Len(trace) + 1

\* the folder leads to a game: an absolute path to a directory holding the executable
FolderResolves(folder) ==
    /\ is_absolute(PathOf(folder))
    /\ PathOf(folder).c \in Directories
    /\ Append(PathOf(folder).c, GameExe) \in Files

\* the steps that follow the integrity check in a launch
LaunchSteps ==
    { "StatusUpdate", "open_r", "open_w", "update_d3dx_ini", "resolved", "resolve_failed",
      "autodetect_game_folder", "autodetect_game_folder_raised", "initialize_game_launch",
      "initialize_game_launch_returned", "OpenSettings", "StartAndInject" }

Autodetects == Named("autodetect_game_folder") \cup Named("autodetect_game_folder_raised")

\* the folder autodetect returned in this run
Autodetected == trace[Pos("autodetect_game_folder")].arg

PathErrors == {"InvalidPath", "PathNotFound", "NotADirectory", "ValidationError"}
ProjectionErrors == {"MissingSetting", "MissingSettingValue", "IniWriteFailure"}

(***************************************************************************)
(* C1: when d3dx.ini is missing and the user cancels the prompt, start_game*)
(* fails with CorruptInstallation; no reinstall is requested, d3dx.ini is  *)
(* neither read nor written, game_folder keeps its value, and neither      *)
(* OpenSettings nor StartAndInject is emitted.                             *)
(***************************************************************************)
C1_CancelFailsWithCorruptInstallation ==
    Answered("Cancel") =>
        /\ ~entry.ini_file.exists
        /\ pc = "done"
        /\ outcome = "CorruptInstallation"
        /\ ~Happened("Update")
        /\ ~Happened("open_r") /\ ~Happened("open_w")
        /\ ini_file = entry.ini_file
        /\ game_folder = entry.game_folder
        /\ ~Happened("OpenSettings") /\ ~Happened("StartAndInject")

C1_Witness ==
    /\ Answered("Cancel") /\ pc = "done" /\ outcome = "CorruptInstallation"
    /\ ~entry.ini_file.exists

(***************************************************************************)
(* C2 as stated: once the user accepts the restore prompt, exactly one     *)
(* reinstall request is fired and the run takes no further launch step.    *)
(***************************************************************************)
C2_NoStepAfterReinstallRequest ==
    Answered("Restore") =>
        /\ Cardinality(Named("Update")) = 1
        /\ \A i \in DOMAIN trace : trace[i].name \notin LaunchSteps

(***************************************************************************)
(* C2 amended: once the user accepts the restore prompt, exactly one       *)
(* forced-reinstall request for this package is fired, right after the     *)
(* prompt, and the launch goes on: the INI update step runs next, so no    *)
(* run ends before update_d3dx_ini has opened d3dx.ini; when the file is   *)
(* still missing then, the run ends with the file-not-found error, and     *)
(* otherwise it continues like a run that found the file in place.         *)
(***************************************************************************)
C2_ReinstallRequestThenLaunchGoesOn ==
    Answered("Restore") =>
        /\ ~entry.ini_file.exists
        /\ Cardinality(Named("Update")) = 1
        /\ trace[1] = Ev("Call", "ShowError", S(<<"Restore">>))
        /\ trace[2] = Ev("Fire", "Update", S(<<PackageName>>))
        /\ pc # "validate_package_files"
        /\ pc # "update_d3dx_ini" =>
             /\ Len(trace) >= 5
             /\ trace[4] = Ev("Fire", "StatusUpdate", NoArg)
             /\ trace[5] = Ev("Step", "open_r", NoArg)
        /\ (pc = "done" /\ ~ini_file.exists) => outcome = "FileNotFoundError"
        /\ (pc # "update_d3dx_ini" /\ ini_file.exists /\ outcome = "running")
             => Happened("update_d3dx_ini")

C2_Witness ==
    /\ Answered("Restore") /\ pc = "done"
    /\ Happened("StartAndInject")

(***************************************************************************)
(* C3: when the configured game folder does not resolve and the autodetect *)
(* fallback fails too (autodetect raises, or its folder fails validation   *)
(* or executable location), start_game emits exactly one OpenSettings and  *)
(* returns normally: no exception, no pre-launch hook, no StartAndInject,  *)
(* game_folder unchanged.                                                  *)
(***************************************************************************)
FallbackFailed ==
    \/ Happened("autodetect_game_folder_raised")
    \/ Happened("autodetect_game_folder") /\ ~FolderResolves(Autodetected)

C3_FailedFallbackOpensSettings ==
    /\ (Happened("update_d3dx_ini") /\ pc # "resolve" /\ ~FolderResolves(entry.game_folder))
          => Happened("resolve_failed")
    /\ (Happened("resolve_failed") /\ pc # "fallback" /\ FallbackFailed) =>
          /\ ~FolderResolves(entry.game_folder)
          /\ pc = "done"
          /\ outcome = "returned"
          /\ Cardinality(Named("OpenSettings")) = 1
          /\ Last = Ev("Fire", "OpenSettings", NoArg)
          /\ ~Happened("initialize_game_launch")
          /\ ~Happened("StartAndInject")
          /\ game_folder = entry.game_folder

C3_Witness ==
    /\ pc = "done" /\ Happened("resolve_failed")
    /\ Happened("autodetect_game_folder") /\ ~FolderResolves(Autodetected)
    /\ Last = Ev("Fire", "OpenSettings", NoArg)

(***************************************************************************)
(* C4: when the configured game folder does not resolve and the            *)
(* autodetected folder passes path validation and executable location, the *)
(* autodetected folder is written to game_folder, the pre-launch hook runs *)
(* on it and the handoff that follows the hook's return carries its        *)
(* executable; autodetect is invoked exactly once in such a run, and never *)
(* in a run whose configured folder resolves.                              *)
(***************************************************************************)
C4_AutodetectedFolderIsUsed ==
    /\ Cardinality(Autodetects) <= 1
    /\ (pc \notin {"idle", "validate_package_files", "update_d3dx_ini", "resolve"}
        /\ Happened("update_d3dx_ini") /\ FolderResolves(entry.game_folder))
          => /\ Autodetects = {}
             /\ game_folder = entry.game_folder
             /\ game_path = PathOf(entry.game_folder)
    /\ (Happened("autodetect_game_folder") /\ FolderResolves(Autodetected)) =>
          /\ ~FolderResolves(entry.game_folder)
          /\ Cardinality(Autodetects) = 1
          /\ game_folder = S(Autodetected.c)
          /\ game_path = Autodetected
          /\ game_exe_path = P(Append(Autodetected.c, GameExe))
          /\ pc \in {"initialize_game_launch", "handoff", "done"}
          /\ pc \in {"handoff", "done"} =>
                trace[Pos("initialize_game_launch")].arg = Autodetected
          /\ (pc = "done" /\ Happened("initialize_game_launch_returned")) =>
                Last = Ev("Fire", "StartAndInject", P(Append(Autodetected.c, GameExe)))

C4_Witness ==
    /\ pc = "done"
    /\ Happened("autodetect_game_folder") /\ FolderResolves(Autodetected)
    /\ game_folder # entry.game_folder
    /\ Happened("StartAndInject")

B2N(b) == IF b THEN 1 ELSE 0

EndedInHandoff == Happened("StartAndInject") /\ outcome = "returned"
EndedInReinstall ==
    /\ Happened("Update")
    /\ \A i \in DOMAIN trace : trace[i].name \notin LaunchSteps
EndedInSettings == Happened("OpenSettings") /\ outcome = "returned"
EndedInCorruptInstallation == outcome = "CorruptInstallation"

C6_FourOutcomes ==
    pc = "done" =>
        B2N(EndedInHandoff) + B2N(EndedInReinstall) + B2N(EndedInSettings)
          + B2N(EndedInCorruptInstallation) = 1

(***************************************************************************)
(* C6 amended: a run in flight can always take its next step, and a        *)
(* finished run is in exactly one of five outcomes: handoff (StartAndInject*)
(* emitted last, normal return), aborted-for-settings (OpenSettings        *)
(* emitted last, normal return), a propagated CorruptInstallation (the     *)
(* user cancelled the prompt), a propagated error of the INI update step   *)
(* (d3dx.ini cannot be opened, or a projection fails), or a propagated     *)
(* error of the pre-launch hook.  A fired reinstall request ends no run:   *)
(* the run goes on to the INI update step and ends in one of the five.     *)
(***************************************************************************)
IniUpdateErrors == ProjectionErrors \cup {"FileNotFoundError", "KeyError"}

\* the step of start_game the run is at can be taken (the INI update step asks
\* for nothing but its place in the handler and a result of update_d3dx_ini)
CanStep ==
    /\ pc \in {"validate_package_files", "update_d3dx_ini", "resolve", "fallback",
               "initialize_game_launch", "handoff"}
    /\ pc = "validate_package_files" => ENABLED validate_package_files
    /\ pc = "update_d3dx_ini" =>
          \A failKey \in FailKeys :
             update_d3dx_ini(ini_file, failKey).err \in IniUpdateErrors \cup {"none"}
    /\ pc = "resolve" => ENABLED start_game_resolve
    /\ pc = "fallback" => ENABLED start_game_fallback
    /\ pc = "initialize_game_launch" => ENABLED initialize_game_launch
    /\ pc = "handoff" => ENABLED start_game_handoff

EndedInIniUpdateError ==
    /\ outcome \in IniUpdateErrors
    /\ Last.name \in {"open_r", "open_w"}
    /\ ~Happened("update_d3dx_ini")

EndedInHookError ==
    /\ outcome = "HookError"
    /\ Last.name = "initialize_game_launch"

C6_FiveOutcomes ==
    /\ pc \notin {"idle", "done"} => (outcome = "running" /\ CanStep)
    /\ pc = "done" =>
        /\ B2N(EndedInHandoff /\ Last.name = "StartAndInject")
             + B2N(EndedInSettings /\ Last.name = "OpenSettings")
             + B2N(EndedInCorruptInstallation /\ Answered("Cancel"))
             + B2N(EndedInIniUpdateError)
             + B2N(EndedInHookError) = 1
        /\ outcome \in {"returned", "CorruptInstallation", "HookError"} \cup IniUpdateErrors
        /\ Happened("Update") => Happened("open_r")

C6_Witness ==
    /\ pc = "done" /\ Happened("Update") /\ outcome = "HookError"

(***************************************************************************)
(* C7 as stated: no path error and no INI projection error (missing        *)
(* setting, missing setting value, INI write failure) raised during        *)
(* start_game reaches its caller.                                          *)
(***************************************************************************)
C7_NoPathOrProjectionErrorEscapes ==
    pc = "done" => outcome \notin PathErrors \cup ProjectionErrors

(***************************************************************************)
(* C7 amended: a path error raised while resolving the configured game     *)
(* folder is caught once and triggers the autodetect fallback, and when    *)
(* the fallback fails too it is replaced by OpenSettings, so no path error *)
(* reaches the caller.  An INI projection error raised by update_d3dx_ini  *)
(* is not caught: it ends the run and reaches the caller of start_game,    *)
(* with no autodetect attempted and no OpenSettings emitted.               *)
(***************************************************************************)
\* a setting group update_d3dx_ini asks for is not in the table
SomeGroupMissing == \E g \in DOMAIN SettingNames : SettingNames[g] \notin DOMAIN d3dx_ini

C7_PathErrorsCaughtProjectionErrorsPropagate ==
    /\ outcome \notin PathErrors
    /\ Happened("resolve_failed") =>
          (pc = "fallback" \/ Cardinality(Autodetects) = 1)
    /\ (pc = "done" /\ Happened("resolve_failed") /\ outcome = "returned"
        /\ ~Happened("StartAndInject")) => Last = Ev("Fire", "OpenSettings", NoArg)
    /\ outcome \in ProjectionErrors =>
          /\ pc = "done"
          /\ Autodetects = {}
          /\ ~Happened("OpenSettings")
          /\ ~Happened("resolved") /\ ~Happened("resolve_failed")
          /\ ~Happened("StartAndInject")
    /\ (Happened("open_r") /\ ini_file.exists /\ SomeGroupMissing) =>
          (pc = "done" /\ outcome \in ProjectionErrors)

C7_Witness ==
    /\ pc = "done" /\ outcome = "MissingSettingValue"
    /\ ini_file.exists

(***************************************************************************)
(* C8: validate_game_path fails with InvalidPath on a path that is not     *)
(* absolute, without any filesystem check; with PathNotFound on an         *)
(* absolute path that does not exist; with NotADirectory on an absolute    *)
(* existing path that is no directory; and returns the path itself for an  *)
(* absolute existing directory.  The request changes no state.             *)
(***************************************************************************)
C8_Classified ==
    last_validate.called =>
        LET folder == last_validate.folder
            p == P(SelectSeq(folder.c, IsPart))
            r == last_validate.result
            absolute == Len(p.c) > 0 /\ p.c[1] \in Drives
        IN /\ ~absolute => (r.err = "InvalidPath" /\ r.probes = << >>)
           /\ (absolute /\ p.c \notin Directories \cup Files) => r.err = "PathNotFound"
           /\ (absolute /\ p.c \in Files) => r.err = "NotADirectory"
           /\ (absolute /\ p.c \in Directories) =>
                 /\ r.err = "none"
                 /\ r.path = p
                 /\ folder.t = "path" => r.path = folder

\* C8: every ValidateGameFolder result is classified as above, and the request
\* leaves configuration, d3dx.ini and the launch state as they were
C8_ValidateGamePath ==
    /\ []C8_Classified
    /\ [][ValidateGameFolder =>
            UNCHANGED <<config, ini_file, pc, outcome, locals, trace, entry>>]_vars

C8_Witness ==
    /\ last_validate.called
    /\ last_validate.folder = S(<<"C:", "Games", "WuWa", "">>)
    /\ last_validate.result.err = "none"
    /\ last_validate.result.path = P(<<"C:", "Games", "WuWa">>)

(***************************************************************************)
(* C9: for a Bool setting set_default_ini_values writes, for every         *)
(* (section, option) entry, the sub-value keyed "on" when the runtime      *)
(* value is truthy and "off" when it is falsy, and for a Map setting the   *)
(* sub-value keyed by the runtime value; when the selected key is not in   *)
(* the entry's dictionary the call fails with MissingSettingValue, which   *)
(* identifies the section, the option and the attempted key.               *)
(***************************************************************************)
C9_BranchWrittenOrMissingSettingValue ==
    (/\ last_projection.called
     /\ last_projection.setting_type \in {"bool", "map"}
     /\ last_projection.setting_name \in DOMAIN d3dx_ini) =>
        LET entries == d3dx_ini[last_projection.setting_name]
            key == last_projection.key
            r == last_projection.result
            Place(i) == <<entries[i].section, entries[i].option>>
            Mapped(i) == key \in DOMAIN entries[i].values
            Written(i) == /\ Mapped(i)
                          /\ entries[i].values[key] # None
                          /\ Place(i) # last_projection.failKey
        IN \A i \in DOMAIN entries :
              (\A j \in 1..(i - 1) : Written(j)) =>
                 /\ ~Mapped(i) =>
                       /\ r.err = "MissingSettingValue"
                       /\ r.section = entries[i].section
                       /\ r.option = entries[i].option
                       /\ r.key = key
                 /\ Written(i) => r.ini.opts[Place(i)] = Str(entries[i].values[key])

(***************************************************************************)
(* C10 as stated: of two successive update_d3dx_ini calls with the same    *)
(* table and flags, each returning without error, the second leaves its    *)
(* document unmodified and does not write the file, whose content stays as *)
(* the first call left it.                                                 *)
(***************************************************************************)
SecondCallIdle(i) ==
    /\ ~ini_calls[i].result.modified
    /\ ~ini_calls[i].result.wrote
    /\ ini_calls[i].result.file = ini_calls[i - 1].result.file

C10_SecondCallUnmodified ==
    \A i \in 2..Len(ini_calls) :
        (ini_calls[i - 1].result.err = "none" /\ ini_calls[i].result.err = "none")
            => SecondCallIdle(i)

(***************************************************************************)
(* C10 amended: when the first of two successive update_d3dx_ini calls     *)
(* returned without error, and the table gives no (section, option) two    *)
(* different values under the current flags, the second call leaves its    *)
(* document unmodified and does not write the file, whose content stays as *)
(* the first call left it.                                                 *)
(***************************************************************************)
\* the string the g-th group writes for its i-th entry, every branch being mapped
Resolved(g, i) ==
    LET e == d3dx_ini[SettingNames[g]][i] IN
    IF g = 1 THEN Str(e.values)
    ELSE Str(e.values[IF flags[SettingNames[g]] THEN "on" ELSE "off"])

Conflicting ==
    \E g1, g2 \in DOMAIN SettingNames :
      \E i1 \in DOMAIN d3dx_ini[SettingNames[g1]], i2 \in DOMAIN d3dx_ini[SettingNames[g2]] :
        LET e1 == d3dx_ini[SettingNames[g1]][i1]
            e2 == d3dx_ini[SettingNames[g2]][i2]
        IN /\ e1.section = e2.section /\ e1.option = e2.option
           /\ Resolved(g1, i1) # Resolved(g2, i2)

C10_SecondCallUnmodifiedAfterCleanFirst ==
    \A i \in 2..Len(ini_calls) :
        (ini_calls[i - 1].result.err = "none" /\ ~Conflicting) => SecondCallIdle(i)

C10_Witness ==
    /\ Len(ini_calls) >= 2
    /\ ini_calls[1].result.err = "none" /\ ini_calls[1].result.wrote
    /\ ini_calls[2].result.err = "none" /\ ~ini_calls[2].result.wrote
    /\ ini_calls[2].before = ini_calls[1].result.file
    /\ ini_calls[2].before # ini_calls[1].before

(***************************************************************************)
(* C11: update_d3dx_ini rewrites d3dx.ini only when all five setting groups*)
(* were projected without error and the document reports a modification;   *)
(* when a projection fails the error reaches the caller of update_d3dx_ini *)
(* and the file is left exactly as it was, even when earlier groups had    *)
(* already been set in the in-memory document.                             *)
(***************************************************************************)
\* what one update_d3dx_ini call, made on file before with result r, may have done
WroteOnlyWhenProjectedAndModified(before, r) ==
    /\ r.wrote <=> (before.exists /\ r.err = "none" /\ r.modified)
    /\ r.wrote => r.file.exists
    /\ ~r.wrote => r.file = before
    /\ (before.exists /\ SomeGroupMissing) => r.err \in ProjectionErrors
    /\ before.exists => r.err \in ProjectionErrors \cup {"KeyError", "none"}

C11_WriteOnlyAfterCleanProjection ==
    /\ \A i \in DOMAIN ini_calls :
          /\ WroteOnlyWhenProjectedAndModified(ini_calls[i].before, ini_calls[i].result)
          /\ i = Len(ini_calls) => ini_file = ini_calls[i].result.file
    /\ Happened("open_w") => (Happened("update_d3dx_ini") /\ outcome \notin IniUpdateErrors)
    /\ (pc = "done" /\ outcome \in ProjectionErrors \cup {"KeyError"}) =>
          /\ ~Happened("open_w")
          /\ Last = Ev("Step", "open_r", NoArg)
          /\ ~Happened("Update") => ini_file = entry.ini_file

C11_Witness ==
    \E i \in DOMAIN ini_calls :
        /\ ini_calls[i].result.err = "IniWriteFailure"
        /\ ini_calls[i].result.modified
        /\ ~ini_calls[i].result.wrote
        /\ ini_file = ini_calls[i].before

(***************************************************************************)
(* C12: set_default_ini_values called with a setting name that is not in   *)
(* the d3dx_ini table fails with MissingSetting before any option is       *)
(* written, the document staying unmodified; for a Constant setting that   *)
(* is in the table, a call that returns has set every (section, option)    *)
(* pair under it to the literal stored for the pair, and a call that fails *)
(* has done so for the pairs before the one its error names.               *)
(***************************************************************************)
C12_MissingSettingOrConstantWritten ==
    last_projection.called =>
        LET name == last_projection.setting_name
            r == last_projection.result
        IN /\ name \notin DOMAIN d3dx_ini =>
                 /\ r.err = "MissingSetting"
                 /\ r.ini = last_projection.before
                 /\ ~r.ini.modified
                 /\ r.ini.opts = ini_file.opts
           /\ (name \in DOMAIN d3dx_ini /\ last_projection.setting_type = "constant") =>
                 LET entries == d3dx_ini[name]
                     Literal(i) == IF entries[i].values.t = "int"
                                   THEN IntStr(entries[i].values.n)
                                   ELSE entries[i].values.s
                     Failing == {i \in DOMAIN entries :
                                   \/ entries[i].values = None
                                   \/ <<entries[i].section, entries[i].option>>
                                         = last_projection.failKey}
                 IN /\ r.err \in {"none", "MissingSettingValue", "IniWriteFailure"}
                    /\ r.err = "none" <=> Failing = {}
                    /\ \A i \in DOMAIN entries :
                          (\A j \in Failing : i < j) =>
                             r.ini.opts[<<entries[i].section, entries[i].option>>] = Literal(i)
                    /\ r.err # "none" =>
                          \E j \in Failing :
                             /\ \A k \in Failing : j <= k
                             /\ r.section = entries[j].section
                             /\ r.option = entries[j].option

C12_Witness ==
    /\ last_projection.called
    /\ last_projection.setting_name \notin DOMAIN d3dx_ini
    /\ last_projection.setting_name = "enable_hunting"
    /\ last_projection.result.err = "MissingSetting"
    /\ "core" \in DOMAIN d3dx_ini

\* a Constant call that changed the document
C12_ConstantWritten ==
    /\ last_projection.called
    /\ last_projection.setting_type = "constant"
    /\ last_projection.result.err = "none"
    /\ last_projection.result.ini.modified
    /\ last_projection.result.ini.opts[<<"Loader", "loader">>] = "XXMI Launcher.exe"
    /\ last_projection.before.opts[<<"Loader", "loader">>] = "3DMigoto Loader.exe"

(***************************************************************************)
(* C13: after backup(f) of an existing file f in an initialized backup     *)
(* session, a later restore(f) in the same session, no other backup of f   *)
(* made in between, makes f's content identical to its content at backup   *)
(* time if and only if f still exists when restore is called; when f no    *)
(* longer exists then, restore is a no-op: it creates no file and raises   *)
(* no error.                                                               *)
(***************************************************************************)
\* the i-th call backed f up, the j-th is a restore of f in the same session,
\* with no backup of f between them
BackupThenRestore(i, j) ==
    /\ i < j
    /\ vault_calls[i].op = "backup"
    /\ vault_calls[i].before.exists
    /\ vault_calls[i].path # NoBackupsPath
    /\ vault_calls[j].op = "restore"
    /\ vault_calls[j].name = vault_calls[i].name
    /\ vault_calls[j].path = vault_calls[i].path
    /\ \A k \in (i + 1)..(j - 1) : vault_calls[k].op # "backup"

C13_RestoreRoundTripIffTargetExists ==
    /\ \A i, j \in DOMAIN vault_calls :
          BackupThenRestore(i, j) =>
             LET backed_up == vault_calls[i].before
                 target == vault_calls[j].before
                 r == vault_calls[j].result
             IN /\ r.err = "none"
                /\ (r.file = backed_up) <=> target.exists
                /\ ~target.exists =>
                      /\ r.file = NoFile
                      /\ ~r.copied
                      /\ r.roots = vault_calls[j].roots
    /\ (vault_calls # << >> /\ vault_calls[Len(vault_calls)].op = "restore") =>
          backup_roots = vault_calls[Len(vault_calls)].result.roots

C13_Witness ==
    /\ Len(vault_calls) = 2
    /\ BackupThenRestore(1, 2)
    /\ vault_calls[1].before = File(EditedOptions)
    /\ vault_calls[2].before = File(PackagedOptions)
    /\ ini_file = File(EditedOptions)

\* the target was gone when restore was called
C13_TargetGone ==
    /\ Len(vault_calls) = 2
    /\ BackupThenRestore(1, 2)
    /\ ~vault_calls[2].before.exists
    /\ ~ini_file.exists

(***************************************************************************)
(* C14: an install_latest_version run with overwrite_ini = false that      *)
(* found d3dx.ini at the importer path completes with d3dx.ini holding its *)
(* pre-install content, whether or not the package ships a d3dx.ini; with  *)
(* overwrite_ini = true restore is never invoked and d3dx.ini is what      *)
(* move_contents left: the package's file when it ships one, the file in   *)
(* place otherwise.                                                        *)
(***************************************************************************)
RestoreSteps == {"restore", "restore_skipped", "restore_raised"}
RestoreInvoked == \E i \in DOMAIN trace : trace[i].name \in RestoreSteps

\* the package of this run shipped a d3dx.ini
Shipped == Ev("Step", "move_contents", S(<<"d3dx.ini">>)) \in {trace[i] : i \in DOMAIN trace}

C14_InstallKeepsIniUnlessOverwrite ==
    /\ (pc = "done" /\ ~overwrite_ini /\ entry.ini_file.exists) =>
          /\ outcome = "returned"
          /\ ini_file = entry.ini_file
          /\ Last = Ev("Step", "restore", NoArg)
    /\ overwrite_ini =>
          /\ pc # "restore"
          /\ ~RestoreInvoked
          /\ pc = "done" =>
                /\ outcome = "returned"
                /\ Last.name = "move_contents"
                /\ ini_file = IF Shipped THEN File(PackagedOptions) ELSE entry.ini_file

C14_Witness ==
    /\ pc = "done" /\ ~overwrite_ini /\ Shipped
    /\ entry.ini_file = File(EditedOptions)
    /\ ini_file = File(EditedOptions)
    /\ Happened("restore")

\* an overwriting install replaced the file in place
C14_Overwritten ==
    /\ pc = "done" /\ overwrite_ini /\ Shipped
    /\ entry.ini_file = File(EditedOptions)
    /\ ini_file = File(PackagedOptions)

(***************************************************************************)
(* C15: the steps of an install_latest_version run come in the order       *)
(* InitializeInstallation announced, backup root selected from the current *)
(* time, existing d3dx.ini backed up, package contents moved into the      *)
(* importer path; so whenever d3dx.ini existed before the install, the     *)
(* session's backup root holds a copy identical to the pre-install         *)
(* d3dx.ini from the backup step on and after the install, whatever        *)
(* overwrite_ini is, and d3dx.ini is not overwritten before that copy      *)
(* exists.                                                                 *)
(***************************************************************************)
InstallOrder == << "InitializeInstallation", "initialize_backup", "backup", "move_contents" >>

\* the session's backup root holds the pre-install d3dx.ini
PreInstallCopyKept ==
    /\ backups_path # NoBackupsPath
    /\ backup_roots[backups_path].exists
    /\ backup_roots[backups_path].files["d3dx.ini"] = entry.ini_file

C15_BackupBeforeMove ==
    pc # "idle" =>
        /\ \A k \in DOMAIN InstallOrder : k <= Len(trace) => trace[k].name = InstallOrder[k]
        /\ Len(trace) = CASE pc = "initialize_backup" -> 1
                           [] pc = "backup" -> 2
                           [] pc = "move_contents" -> 3
                           [] pc = "restore" -> 4
                           [] pc = "done" -> IF overwrite_ini THEN 4 ELSE 5
        /\ pc \in {"backup", "move_contents", "restore", "done"} =>
              backups_path = BackupName(now)
        /\ pc \in {"initialize_backup", "backup"} => ini_file = entry.ini_file
        /\ (entry.ini_file.exists /\ pc \in {"move_contents", "restore", "done"}) =>
              PreInstallCopyKept
        /\ (Happened("move_contents") /\ ini_file # entry.ini_file /\ entry.ini_file.exists) =>
              PreInstallCopyKept

C15_Witness ==
    /\ pc = "done" /\ overwrite_ini /\ Shipped
    /\ entry.ini_file = File(EditedOptions)
    /\ ini_file = File(PackagedOptions)
    /\ PreInstallCopyKept
    /\ now = MaxClock

(***************************************************************************)
(* C16: backup(f) changes nothing when f does not exist; in particular it  *)
(* does not create the backup root, which only a backup that copies a file *)
(* creates.  When f exists, in an initialized session, the backup root     *)
(* exists afterwards and holds a copy of f under f's file name, everything *)
(* else in the backup directories and f itself being as before.  No        *)
(* backup, restore or install step deletes a backup root or a file in one. *)
(***************************************************************************)
C16_BackupFrame ==
    \A i \in DOMAIN vault_calls :
        vault_calls[i].op = "backup" =>
            LET f == vault_calls[i].before
                name == vault_calls[i].name
                path == vault_calls[i].path
                roots == vault_calls[i].roots
                r == vault_calls[i].result
            IN /\ r.file = f
               /\ ~f.exists => (r.err = "none" /\ r.roots = roots /\ ~r.copied)
               /\ (f.exists /\ path # NoBackupsPath) =>
                     /\ r.err = "none"
                     /\ r.copied
                     /\ r.roots[path].exists
                     /\ r.roots[path].files[name] = f
                     /\ \A b \in BackupNames \ {path} : r.roots[b] = roots[b]
                     /\ \A n \in FileNames \ {name} :
                           r.roots[path].files[n] = roots[path].files[n]
               /\ \A b \in BackupNames : (r.roots[b].exists /\ ~roots[b].exists) => r.copied

\* every backup root and every file in one is still there after the step
NothingDeleted ==
    \A b \in BackupNames :
        /\ backup_roots[b].exists => backup_roots'[b].exists
        /\ \A n \in FileNames :
              backup_roots[b].files[n].exists => backup_roots'[b].files[n].exists

C16_BackupLazyAndNothingDeleted ==
    /\ []C16_BackupFrame
    /\ [][NothingDeleted]_vars
    /\ [][call_backup => UNCHANGED <<ini_file, backups_path>>]_vars

C16_Witness ==
    /\ Len(vault_calls) = 2
    /\ vault_calls[1].op = "backup" /\ ~vault_calls[1].before.exists
    /\ vault_calls[1].path = BackupName(1)
    /\ ~vault_calls[2].roots[BackupName(1)].exists
    /\ vault_calls[2].op = "backup" /\ vault_calls[2].result.copied
    /\ vault_calls[2].path = BackupName(1)
    /\ backup_roots[BackupName(1)].files["d3dx.ini"] = File(EditedOptions)

(***************************************************************************)
(* C17: the validate-then-autodetect warm-up of load lets no failure       *)
(* escape: whatever validate_game_path, validate_game_exe_path or          *)
(* autodetect_game_folder raise, load completes normally, emits no         *)
(* OpenSettings or other signal for it, and changes game_folder only when  *)
(* the configured folder failed and the autodetected folder passed both    *)
(* path validation and executable location.                                *)
(***************************************************************************)
C17_WarmUp ==
    /\ Quiet => ENABLED load
    /\ last_load.called =>
          LET before == last_load.game_folder
              adopted == /\ ~FolderResolves(before)
                         /\ last_load.detected
                         /\ FolderResolves(last_load.candidate)
          IN /\ Quiet
             /\ last_load.tried <=> ~FolderResolves(before)
             /\ last_load.detected => last_load.tried
             /\ adopted => game_folder = S(last_load.candidate.c)
             /\ ~adopted => game_folder = before

C17_LoadSwallowsWarmUpFailures ==
    /\ []C17_WarmUp
    /\ [][load => (pc' = "idle" /\ UNCHANGED <<d3dx_ini, flags, ini_file, pc, outcome,
                                                 locals, trace, entry>>)]_vars

C17_Witness ==
    /\ last_load.called /\ Quiet
    /\ last_load.game_folder = S(<<"C:", "Games", "notes.txt">>)
    /\ last_load.detected
    /\ last_load.candidate = P(<<"C:", "Games", "Empty">>)
    /\ game_folder = last_load.game_folder

\* a load whose autodetected folder was adopted
C17_Adopted ==
    /\ last_load.called /\ last_load.detected
    /\ game_folder = S(last_load.candidate.c)
    /\ game_folder # last_load.game_folder

(***************************************************************************)
(* C18: in every install_latest_version run, whenever restore proceeds     *)
(* past its existence guard the session's backup root holds a file with    *)
(* the target's name, so restore never copies from a backup that was not   *)
(* made; in particular an install with overwrite_ini = false onto an       *)
(* importer path without d3dx.ini, of a package that ships one, completes  *)
(* without a file-copy error.                                              *)
(***************************************************************************)
C18_RestoreOnlyFromMadeBackup ==
    /\ (pc = "restore" /\ ini_file.exists) =>
          /\ backup_roots[backups_path].exists
          /\ backup_roots[backups_path].files["d3dx.ini"].exists
    /\ ~Happened("restore_raised")
    /\ (pc = "done" /\ ~overwrite_ini /\ ~entry.ini_file.exists /\ Shipped) =>
          outcome = "returned"

(***************************************************************************)
(* C19: whenever start_game emits StartAndInject, the executable path it   *)
(* carries is the one located for the folder game_folder holds at that     *)
(* moment, and that folder passed validate_game_path in the same run;      *)
(* across load and start_game, game_folder is only ever overwritten with   *)
(* an autodetected folder that passed path validation and executable       *)
(* location, never with an unvalidated or failed candidate.                *)
(***************************************************************************)
C19_HandoffForConfiguredFolder ==
    Happened("StartAndInject") =>
        LET folder == P(SelectSeq(game_folder.c, IsPart)) IN
        /\ Last = Ev("Fire", "StartAndInject", P(Append(folder.c, GameExe)))
        /\ Append(folder.c, GameExe) \in Files
        /\ Len(folder.c) > 0 /\ folder.c[1] \in Drives /\ folder.c \in Directories
        /\ Ev("Step", "resolved", folder) \in {trace[i] : i \in DOMAIN trace}
        /\ game_path = folder
        /\ game_folder # entry.game_folder => Happened("autodetect_game_folder")

\* the folder game_folder holds after the step came from autodetect_game_folder
\* in this load or this run
AutodetectedNow ==
    \/ /\ last_load'.called /\ last_load'.detected
       /\ game_folder' = S(last_load'.candidate.c)
    \/ \E i \in DOMAIN trace' :
          trace'[i] = Ev("Step", "autodetect_game_folder", P(game_folder'.c))

OverwrittenOnlyByValidAutodetect ==
    (game_folder' # game_folder /\ (pc # "idle" \/ load)) =>
        /\ FolderResolves(game_folder')
        /\ ~FolderResolves(game_folder)
        /\ AutodetectedNow

C19_GameFolderOnlyValidated ==
    /\ []C19_HandoffForConfiguredFolder
    /\ [][OverwrittenOnlyByValidAutodetect]_vars

C19_Witness ==
    /\ pc = "done" /\ Happened("StartAndInject")
    /\ game_folder = S(<<"C:", "Games", "WuWa", "">>)
    /\ Last.arg = P(<<"C:", "Games", "WuWa", GameExe>>)
    /\ ~Happened("autodetect_game_folder")

====
